---- MODULE Spec2Model ----
(***************************************************************************)
(* BestwAI raffle platform (src/app.py): the raffle ledger, the draw       *)
(* engine, the signup / reject / reset handlers and the scheduler tick.    *)
(*                                                                         *)
(* The tables of the database are the state.  Every request handler and    *)
(* the scheduler job run on their own thread with their own SQLAlchemy     *)
(* session and no lock, so a handler is a sequence of atomic steps, one    *)
(* per database read or commit, and the steps of different threads         *)
(* interleave.  What a session has loaded (raffle.total_pot,               *)
(* participant.wager_amount, entry.entry_count) is a thread-local          *)
(* snapshot that expires on that session's commit; an UPDATE writes the    *)
(* value computed from the snapshot, and an UPDATE of a row that is gone   *)
(* raises and rolls the session back.  A delete removes the rows it names  *)
(* and nothing else, primary keys are never handed out twice, and a query  *)
(* without ORDER BY returns rows in primary-key order.  Time is counted in *)
(* minutes from a UTC hour boundary.  The Config table (the admin PIN is   *)
(* its default), reset_timer and the page, QR-code and Telegram handlers   *)
(* are left out.                                                           *)
(***************************************************************************)
EXTENDS Integers, Sequences, FiniteSets, TLC

\* ------------------------------------------------------------------ bounds
MaxRid == 3          \* raffles ever created; a draw starts only while its
                     \* rollover and one racing creation still fit
MaxPid == 2          \* participants ever created
MaxWagerTotal == 20  \* accumulated wager of one participant
MaxNow == 30         \* last instant of the clock
ClockStep == 30      \* minutes between two observed instants

\* ------------------------------------------------------- program constants
UTC_OFFSET == 2
MIN_WAGER == 10
MAX_WINNERS == 2
MAX_ATTEMPTS == 100

Threads == {"sched", "w1"}
Workers == {"w1"}
Phones == {"a", "b"}
PhoneInputs == Phones \cup {""}
NameInputs == {"", "n"}
WagerInputs == {0, 5, 10, 15}
ADMIN_PIN == "1234"
PinInputs == {"1234", "0000"}

VARIABLES
    raffles,        \* table raffle: id -> [status, total_pot, draw_time]
    participants,   \* table participant: id -> [phone, wager_amount, verified]
    entries,        \* table entry: id -> [raffle_id, participant_id, entry_count]
    winners,        \* table winner, in insertion order
    nextRid, nextPid, nextEid,   \* the autoincrement counters
    now,            \* datetime.utcnow(), minutes
    pc,             \* per thread: the statement it is at
    loc,            \* per thread: its local variables and session snapshot
    ret             \* what the step that led here returned, NoRet if no call returned

vars == <<raffles, participants, entries, winners, nextRid, nextPid, nextEid,
          now, pc, loc, ret>>
db == <<raffles, participants, entries, winners, nextRid, nextPid, nextEid>>

\* ----------------------------------------------------------------- helpers
Min(S) == CHOOSE x \in S : \A y \in S : x <= y

RECURSIVE SetToSeq(_)
SetToSeq(S) == IF S = {} THEN <<>> ELSE <<Min(S)>> \o SetToSeq(S \ {Min(S)})

Range(s) == {s[i] : i \in DOMAIN s}

Without(s, x) == SelectSeq(s, LAMBDA e : e # x)

\* Query(...).first(): the row with the least primary key, 0 for None
First(S) == IF S = {} THEN 0 ELSE Min(S)

PendingFirst == First({r \in DOMAIN raffles : raffles[r].status = "pending"})

ParticipantByPhone(phone) ==
    First({p \in DOMAIN participants : participants[p].phone = phone})

EntryFirst(rid, pid) ==
    First({e \in DOMAIN entries : entries[e].raffle_id = rid
                                  /\ entries[e].participant_id = pid})

EntriesOf(rid) == SetToSeq({e \in DOMAIN entries : entries[e].raffle_id = rid})

\* the boundary search taking :30 as still ahead at minute 30
NextDrawTimeInclusive(now_utc) ==
    LET now_local == now_utc + 60 * UTC_OFFSET
        minute == now_local % 60
        next_draw_local == IF minute <= 30
                           THEN (now_local - minute) + 30
                           ELSE (now_local - minute) + 60
    IN  next_draw_local - 60 * UTC_OFFSET

\* next :00 or :30 in local time, converted back to UTC
NextDrawTime(now_utc) ==
    LET now_local == now_utc + 60 * UTC_OFFSET
        minute == now_local % 60
        next_draw_local == IF minute < 30
                           THEN (now_local - minute) + 30
                           ELSE (now_local - minute) + 60
    IN  next_draw_local - 60 * UTC_OFFSET

\* ------------------------------------------------------------ thread state
NoRet == [thread |-> "", kind |-> "none", raffle_id |-> 0, winners |-> <<>>, pot |-> 0]
RetOf(k) == [NoRet EXCEPT !.kind = k]

L0 == [op |-> "none", cont |-> "none",
       raf |-> 0, pot |-> 0, potOf |-> 0,
       phone |-> "", wager |-> 0, pid |-> 0, wag |-> 0, wagOk |-> FALSE,
       eid |-> 0, ec |-> 0, vps |-> <<>>,
       rid |-> 0, pool |-> <<>>, selected |-> {}, won |-> <<>>,
       pos |-> 1, dists |-> <<>>, prize |-> 0, rpot |-> 0]

Goto(t, label, l) ==
    /\ pc' = [pc EXCEPT ![t] = label]
    /\ loc' = [loc EXCEPT ![t] = l]
    /\ ret' = NoRet

Done(t, r) ==
    /\ pc' = [pc EXCEPT ![t] = "idle"]
    /\ loc' = [loc EXCEPT ![t] = L0]
    /\ ret' = [r EXCEPT !.thread = t]

\* an exception leaves the handler: the session is rolled back
Abort(t) == Done(t, RetOf("error")) /\ UNCHANGED db

\* a commit expires everything the session has loaded
Expired(l) == [l EXCEPT !.potOf = 0, !.wagOk = FALSE]

\* ------------------------------------------------------------------- Init
Init ==
    /\ now = 0
    /\ raffles = (1 :> [status |-> "pending", total_pot |-> 0,
                        draw_time |-> NextDrawTime(0)])
    /\ participants = [p \in {} |-> 0]
    /\ entries = [e \in {} |-> 0]
    /\ winners = <<>>
    /\ nextRid = 2 /\ nextPid = 1 /\ nextEid = 1
    /\ pc = [t \in Threads |-> "idle"]
    /\ loc = [t \in Threads |-> L0]
    /\ ret = NoRet

\* ------------------------------------------------------ get_current_raffle
\* where get_current_raffle returns to
Continue(t, l) ==
    CASE l.cont = "signup" -> Goto(t, "s1", l)
      [] l.cont = "addv"   -> Goto(t, "a1", l)
      [] l.cont = "draw"   ->
            IF l.rid \in DOMAIN raffles
            THEN Done(t, [RetOf("result") EXCEPT !.raffle_id = l.rid,
                                                 !.winners = l.won, !.pot = l.rpot])
            ELSE Done(t, RetOf("error"))
      [] OTHER             -> Done(t, RetOf("ok"))

\* line 128: Raffle.query.filter_by(status='pending').first()
GcrRead(t) ==
    /\ pc[t] = "gcr1"
    /\ LET r == PendingFirst
           l == loc[t]
       IN  IF r # 0
           THEN Continue(t, IF l.potOf = r
                            THEN [l EXCEPT !.raf = r]
                            ELSE [l EXCEPT !.raf = r, !.potOf = r,
                                           !.pot = raffles[r].total_pot])
           ELSE Goto(t, "gcr2", l)
    /\ UNCHANGED <<db, now>>

\* lines 130-150: the new raffle is committed
GcrCreate(t) ==
    /\ pc[t] = "gcr2"
    /\ nextRid <= MaxRid
    /\ raffles' = raffles @@ (nextRid :> [status |-> "pending", total_pot |-> 0,
                                          draw_time |-> NextDrawTime(now)])
    /\ nextRid' = nextRid + 1
    /\ Goto(t, "gcr3", Expired([loc[t] EXCEPT !.raf = nextRid]))
    /\ UNCHANGED <<participants, entries, winners, nextPid, nextEid, now>>

VerifiedParticipants ==
    LET ids == SetToSeq({p \in DOMAIN participants : participants[p].verified})
    IN  [i \in DOMAIN ids |-> [id |-> ids[i],
                               wager_amount |-> participants[ids[i]].wager_amount]]

\* lines 153-157: the verified participants are read, the raffle is refreshed
GcrReadVerified(t) ==
    /\ pc[t] = "gcr3"
    /\ LET l == loc[t]
           vps == VerifiedParticipants
       IN  IF vps = <<>>
           THEN Continue(t, l)
           ELSE IF l.raf \notin DOMAIN raffles
           THEN Done(t, RetOf("error"))
           ELSE Goto(t, "gcr4", [l EXCEPT !.vps = vps, !.potOf = l.raf,
                                          !.pot = raffles[l.raf].total_pot])
    /\ UNCHANGED <<db, now>>

RECURSIVE SumWagers(_)
SumWagers(vps) ==
    IF vps = <<>> THEN 0 ELSE Head(vps).wager_amount + SumWagers(Tail(vps))

\* lines 154-163: one Entry per verified participant, the pot, one commit
GcrEnroll(t) ==
    /\ pc[t] = "gcr4"
    /\ LET l == loc[t]
           n == Len(l.vps)
       IN  IF l.raf \notin DOMAIN raffles
           THEN Abort(t)
           ELSE /\ entries' = entries @@
                      [e \in nextEid .. (nextEid + n - 1) |->
                          [raffle_id |-> l.raf,
                           participant_id |-> l.vps[e - nextEid + 1].id,
                           entry_count |-> l.vps[e - nextEid + 1].wager_amount \div 10]]
                /\ nextEid' = nextEid + n
                /\ raffles' = [raffles EXCEPT ![l.raf].total_pot = l.pot + SumWagers(l.vps)]
                /\ Continue(t, Expired([l EXCEPT !.vps = <<>>]))
                /\ UNCHANGED <<participants, winners, nextRid, nextPid>>
    /\ UNCHANGED now

\* the handlers that only call get_current_raffle and then read
\* (get_current_raffle_info, list_participants, debug_database)
QueryCurrent(t) ==
    /\ pc[t] = "idle"
    /\ t \in Workers
    /\ Goto(t, "gcr1", [L0 EXCEPT !.op = "query", !.cont = "query"])
    /\ UNCHANGED <<db, now>>

\* ------------------------------------------------------ execute_raffle_draw
\* DrawGuard without the test of raffle.status on line 201
DrawGuardIgnoringStatus(t, raffle_id) ==
    LET raffle == IF raffle_id # 0
                  THEN (IF raffle_id \in DOMAIN raffles THEN raffle_id ELSE 0)
                  ELSE PendingFirst
    IN  /\ IF raffle = 0
           THEN Done(t, RetOf("None"))
           ELSE /\ nextRid < MaxRid
                /\ Goto(t, "mark", [L0 EXCEPT !.op = "draw", !.rid = raffle])
        /\ UNCHANGED <<db, now>>

\* lines 196-202
DrawGuard(t, raffle_id) ==
    LET raffle == IF raffle_id # 0
                  THEN (IF raffle_id \in DOMAIN raffles THEN raffle_id ELSE 0)
                  ELSE PendingFirst
    IN  /\ IF raffle = 0 \/ raffles[raffle].status # "pending"
           THEN Done(t, RetOf("None"))
           ELSE /\ nextRid < MaxRid
                /\ Goto(t, "mark", [L0 EXCEPT !.op = "draw", !.rid = raffle])
        /\ UNCHANGED <<db, now>>

\* lines 444-450: the manual trigger
TriggerDraw(t) ==
    /\ pc[t] = "idle"
    /\ t \in Workers
    /\ DrawGuard(t, 0)

\* the tick without the comparison of now with draw_time
CheckAndExecuteDrawIgnoringTime(t) ==
    /\ pc[t] = "idle"
    /\ t = "sched"
    /\ LET raffle == PendingFirst
       IN  IF raffle # 0
           THEN Goto(t, "exec", [L0 EXCEPT !.op = "tick", !.rid = raffle])
           ELSE Done(t, RetOf("ok"))
    /\ UNCHANGED <<db, now>>

\* lines 792-797: the scheduler job
CheckAndExecuteDraw(t) ==
    /\ pc[t] = "idle"
    /\ t = "sched"
    /\ LET raffle == PendingFirst
       IN  IF raffle # 0 /\ now >= raffles[raffle].draw_time
           THEN Goto(t, "exec", [L0 EXCEPT !.op = "tick", !.rid = raffle])
           ELSE Done(t, RetOf("ok"))
    /\ UNCHANGED <<db, now>>

\* line 797 -> 196: execute_raffle_draw(raffle.id)
ExecuteRaffleDraw(t) ==
    /\ pc[t] = "exec"
    /\ DrawGuard(t, loc[t].rid)

\* lines 205-206
MarkDrawing(t) ==
    /\ pc[t] = "mark"
    /\ LET l == loc[t]
       IN  IF l.rid \notin DOMAIN raffles
           THEN Abort(t)
           ELSE /\ raffles' = [raffles EXCEPT ![l.rid].status = "drawing"]
                /\ Goto(t, "entries", l)
                /\ UNCHANGED <<participants, entries, winners, nextRid, nextPid, nextEid>>
    /\ UNCHANGED now

\* the pool with every entry counted once, whatever its entry_count
WeightedOnce(es) == [i \in 1 .. Len(es) |-> entries[es[i]].participant_id]

RECURSIVE Weighted(_)
Weighted(es) ==
    IF es = <<>> THEN <<>>
    ELSE [i \in 1 .. entries[Head(es)].entry_count |-> entries[Head(es)].participant_id]
         \o Weighted(Tail(es))

HouseCut(total_pot) == (total_pot * 20) \div 100

\* the fractions without the single-winner override of lines 240-241
DistributionsTruncated(winner_count) ==
    SubSeq(<<625, 375>>, 1, winner_count)

Distributions(winner_count) ==
    IF winner_count = 1 THEN <<1000>> ELSE SubSeq(<<625, 375>>, 1, winner_count)

\* lines 209-246
ReadEntries(t) ==
    /\ pc[t] = "entries"
    /\ LET l == loc[t]
       IN  IF l.rid \notin DOMAIN raffles
           THEN Done(t, RetOf("error"))
           ELSE LET es == EntriesOf(l.rid)
                    weighted_entries == Weighted(es)
                    total_pot == raffles[l.rid].total_pot
                    house_cut == HouseCut(total_pot)
                    unique == Range(weighted_entries)
                    winner_count == IF Cardinality(unique) < MAX_WINNERS
                                    THEN Cardinality(unique) ELSE MAX_WINNERS
                IN  IF es = <<>> \/ winner_count = 0
                    THEN Goto(t, "complete", [l EXCEPT !.won = <<>>, !.rpot = 0])
                    ELSE Goto(t, "pick",
                              [l EXCEPT !.pool = weighted_entries, !.selected = {},
                                        !.won = <<>>, !.pos = 1,
                                        !.dists = Distributions(winner_count),
                                        !.prize = total_pot - house_cut,
                                        !.rpot = total_pot])
    /\ UNCHANGED <<db, now>>

\* lines 253-262: random.choice and the duplicate-avoiding loop; the set of
\* <<winner_id, remaining_entries>> the statements can end with
RECURSIVE AvoidDuplicates(_, _, _, _)
AvoidDuplicates(winner_id, remaining, selected, attempts) ==
    IF winner_id \in selected /\ attempts < MAX_ATTEMPTS
    THEN LET rest == Without(remaining, winner_id)
         IN  IF rest = <<>>
             THEN {<<winner_id, rest>>}
             ELSE UNION {AvoidDuplicates(w, rest, selected, attempts + 1) : w \in Range(rest)}
    ELSE {<<winner_id, remaining>>}

Choices(remaining, selected) ==
    UNION {AvoidDuplicates(w, remaining, selected, 0) : w \in Range(remaining)}

Amount(prize_pool, dist) == (prize_pool * dist) \div 1000

\* lines 248-291: one iteration of the loop over the positions
PickWinner(t) ==
    /\ pc[t] = "pick"
    /\ LET l == loc[t]
       IN  \E c \in Choices(l.pool, l.selected) :
             LET winner_id == c[1]
                 skip == winner_id \in l.selected \/ winner_id \notin DOMAIN participants
                 l2 == IF skip
                       THEN [l EXCEPT !.pool = c[2], !.pos = l.pos + 1]
                       ELSE [l EXCEPT !.pool = Without(c[2], winner_id),
                                      !.selected = l.selected \cup {winner_id},
                                      !.pos = l.pos + 1,
                                      !.won = Append(l.won,
                                          [raffle_id |-> l.rid,
                                           participant_id |-> winner_id,
                                           amount_won |-> Amount(l.prize, l.dists[l.pos]),
                                           position |-> l.pos])]
             IN  IF l2.pos > Len(l.dists) \/ l2.pool = <<>>
                 THEN Goto(t, "complete", l2)
                 ELSE Goto(t, "pick", l2)
    /\ UNCHANGED <<db, now>>

\* the commit of the winners without the status update of line 294
CompleteRaffleKeepingStatus(t) ==
    /\ pc[t] = "complete"
    /\ LET l == loc[t]
       IN  IF l.rid \notin DOMAIN raffles
           THEN Abort(t)
           ELSE /\ winners' = winners \o l.won
                /\ Goto(t, "gcr1", Expired([l EXCEPT !.cont = "draw", !.pool = <<>>,
                                                     !.selected = {}, !.dists = <<>>,
                                                     !.pos = 1, !.prize = 0]))
                /\ UNCHANGED <<raffles, participants, entries, nextRid, nextPid, nextEid>>
    /\ UNCHANGED now

\* lines 294-295 (212-213, 232-233): the winners and 'completed', one commit
CompleteRaffle(t) ==
    /\ pc[t] = "complete"
    /\ LET l == loc[t]
       IN  IF l.rid \notin DOMAIN raffles
           THEN Abort(t)
           ELSE /\ raffles' = [raffles EXCEPT ![l.rid].status = "completed"]
                /\ winners' = winners \o l.won
                /\ Goto(t, "gcr1", Expired([l EXCEPT !.cont = "draw", !.pool = <<>>,
                                                     !.selected = {}, !.dists = <<>>,
                                                     !.pos = 1, !.prize = 0]))
                /\ UNCHANGED <<participants, entries, nextRid, nextPid, nextEid>>
    /\ UNCHANGED now

\* ------------------------------------------- add_verified_participant_to_raffle
\* the call without the test of lines 172-174
AddWithoutCheck(t) ==
    /\ pc[t] = "a1"
    /\ LET l == loc[t]
       IN  IF (l.potOf # l.raf /\ l.raf \notin DOMAIN raffles)
              \/ (~l.wagOk /\ l.pid \notin DOMAIN participants)
           THEN Done(t, RetOf("error"))
           ELSE LET pot == IF l.potOf = l.raf THEN l.pot ELSE raffles[l.raf].total_pot
                    wag == IF l.wagOk THEN l.wag ELSE participants[l.pid].wager_amount
                IN  Goto(t, "a2", [l EXCEPT !.pot = pot, !.potOf = l.raf,
                                            !.wag = wag, !.wagOk = TRUE])
    /\ UNCHANGED <<db, now>>

\* lines 172-177: the session reloads what its commits expired, then looks
\* for an Entry of this raffle and participant
AddCheckExisting(t) ==
    /\ pc[t] = "a1"
    /\ LET l == loc[t]
       IN  IF (l.potOf # l.raf /\ l.raf \notin DOMAIN raffles)
              \/ (~l.wagOk /\ l.pid \notin DOMAIN participants)
           THEN Done(t, RetOf("error"))
           ELSE LET pot == IF l.potOf = l.raf THEN l.pot ELSE raffles[l.raf].total_pot
                    wag == IF l.wagOk THEN l.wag ELSE participants[l.pid].wager_amount
                IN  IF EntryFirst(l.raf, l.pid) # 0
                    THEN Done(t, RetOf("False"))
                    ELSE Goto(t, "a2", [l EXCEPT !.pot = pot, !.potOf = l.raf,
                                                 !.wag = wag, !.wagOk = TRUE])
    /\ UNCHANGED <<db, now>>

\* lines 180-189: the Entry and the pot, one commit
AddEntry(t) ==
    /\ pc[t] = "a2"
    /\ LET l == loc[t]
       IN  IF l.raf \notin DOMAIN raffles
           THEN Abort(t)
           ELSE /\ entries' = entries @@
                      (nextEid :> [raffle_id |-> l.raf, participant_id |-> l.pid,
                                   entry_count |-> l.wag \div 10])
                /\ nextEid' = nextEid + 1
                /\ raffles' = [raffles EXCEPT ![l.raf].total_pot = l.pot + l.wag]
                /\ Done(t, RetOf("ok"))
                /\ UNCHANGED <<participants, winners, nextRid, nextPid>>
    /\ UNCHANGED now

\* ----------------------------------------------------------------- signup
\* the validation without the test of line 353
SignupAnyAmount(t, name, phone, wager, pin) ==
    /\ pc[t] = "idle"
    /\ t \in Workers
    /\ \A p \in DOMAIN participants :
          participants[p].phone = phone =>
              participants[p].wager_amount + wager <= MaxWagerTotal
    /\ (\E p \in DOMAIN participants : participants[p].phone = phone)
          \/ nextPid <= MaxPid
    /\ IF name = "" \/ phone = "" \/ wager = 0 \/ wager < MIN_WAGER
       THEN Done(t, RetOf("400"))
       ELSE IF pin # ADMIN_PIN
       THEN Done(t, RetOf("403"))
       ELSE Goto(t, "gcr1", [L0 EXCEPT !.op = "signup", !.cont = "signup",
                                       !.phone = phone, !.wager = wager])
    /\ UNCHANGED <<db, now>>

\* lines 340-362: validation, then get_current_raffle
Signup(t, name, phone, wager, pin) ==
    /\ pc[t] = "idle"
    /\ t \in Workers
    /\ \A p \in DOMAIN participants :
          participants[p].phone = phone =>
              participants[p].wager_amount + wager <= MaxWagerTotal
    /\ (\E p \in DOMAIN participants : participants[p].phone = phone)
          \/ nextPid <= MaxPid
    /\ IF name = "" \/ phone = "" \/ wager = 0 \/ wager < MIN_WAGER
          \/ wager % 10 # 0
       THEN Done(t, RetOf("400"))
       ELSE IF pin # ADMIN_PIN
       THEN Done(t, RetOf("403"))
       ELSE Goto(t, "gcr1", [L0 EXCEPT !.op = "signup", !.cont = "signup",
                                       !.phone = phone, !.wager = wager])
    /\ UNCHANGED <<db, now>>

\* line 363: Participant.query.filter_by(phone=phone).first()
SignupLookup(t) ==
    /\ pc[t] = "s1"
    /\ LET l == loc[t]
           existing == ParticipantByPhone(l.phone)
       IN  IF existing # 0
           THEN Goto(t, "s2", [l EXCEPT !.pid = existing, !.wagOk = TRUE,
                                        !.wag = participants[existing].wager_amount])
           ELSE Goto(t, "s5", l)
    /\ UNCHANGED <<db, now>>

\* lines 367-369
SignupAddWager(t) ==
    /\ pc[t] = "s2"
    /\ LET l == loc[t]
       IN  IF l.pid \notin DOMAIN participants
           THEN Abort(t)
           ELSE /\ participants' =
                      [participants EXCEPT ![l.pid].wager_amount = l.wag + l.wager]
                /\ Goto(t, "s3", Expired(l))
                /\ UNCHANGED <<raffles, entries, winners, nextRid, nextPid, nextEid>>
    /\ UNCHANGED now

\* lines 372-381: the raffle and the participant are reloaded, the Entry is read
SignupFindEntry(t) ==
    /\ pc[t] = "s3"
    /\ LET l == loc[t]
       IN  IF l.raf \notin DOMAIN raffles \/ l.pid \notin DOMAIN participants
           THEN Done(t, RetOf("error"))
           ELSE LET entry == EntryFirst(l.raf, l.pid)
                    l2 == [l EXCEPT !.pot = raffles[l.raf].total_pot, !.potOf = l.raf,
                                    !.wag = participants[l.pid].wager_amount,
                                    !.wagOk = TRUE]
                IN  IF entry # 0
                    THEN Goto(t, "s4", [l2 EXCEPT !.eid = entry,
                                                  !.ec = entries[entry].entry_count])
                    ELSE Goto(t, "gcr1", [l2 EXCEPT !.cont = "addv"])
    /\ UNCHANGED <<db, now>>

\* lines 375-378
SignupAddEntries(t) ==
    /\ pc[t] = "s4"
    /\ LET l == loc[t]
       IN  IF l.eid \notin DOMAIN entries \/ l.raf \notin DOMAIN raffles
           THEN Abort(t)
           ELSE /\ entries' = [entries EXCEPT ![l.eid].entry_count = l.ec + l.wager \div 10]
                /\ raffles' = [raffles EXCEPT ![l.raf].total_pot = l.pot + l.wager]
                /\ Done(t, RetOf("ok"))
                /\ UNCHANGED <<participants, winners, nextRid, nextPid, nextEid>>
    /\ UNCHANGED now

\* signup creating the participant with the column default of line 70
SignupCreateUnverified(t) ==
    /\ pc[t] = "s5"
    /\ LET l == loc[t]
       IN  /\ participants' = participants @@
                 (nextPid :> [phone |-> l.phone, wager_amount |-> l.wager,
                              verified |-> FALSE])
           /\ nextPid' = nextPid + 1
           /\ Goto(t, "gcr1", Expired([l EXCEPT !.pid = nextPid, !.cont = "addv"]))
    /\ UNCHANGED <<raffles, entries, winners, nextRid, nextEid, now>>

\* lines 391-401
SignupCreate(t) ==
    /\ pc[t] = "s5"
    /\ LET l == loc[t]
       IN  /\ participants' = participants @@
                 (nextPid :> [phone |-> l.phone, wager_amount |-> l.wager,
                              verified |-> TRUE])
           /\ nextPid' = nextPid + 1
           /\ Goto(t, "gcr1", Expired([l EXCEPT !.pid = nextPid, !.cont = "addv"]))
    /\ UNCHANGED <<raffles, entries, winners, nextRid, nextEid, now>>

\* ------------------------------------------------------- the admin handlers
Restrict(f, S) == [x \in S |-> f[x]]

\* lines 670-691
VerifyParticipant(t, participant_id) ==
    /\ pc[t] = "idle"
    /\ t \in Workers
    /\ IF participant_id \notin DOMAIN participants
       THEN Done(t, RetOf("404")) /\ UNCHANGED db
       ELSE IF participants[participant_id].verified
       THEN Done(t, RetOf("already verified")) /\ UNCHANGED db
       ELSE /\ participants' = [participants EXCEPT ![participant_id].verified = TRUE]
            /\ Goto(t, "gcr1", [L0 EXCEPT !.op = "verify", !.cont = "addv",
                                          !.pid = participant_id])
            /\ UNCHANGED <<raffles, entries, winners, nextRid, nextPid, nextEid>>
    /\ UNCHANGED now

\* reject_participant deleting the participant's Winner records as well
RejectParticipantAndWinners(t, participant_id) ==
    /\ pc[t] = "idle"
    /\ t \in Workers
    /\ IF participant_id \notin DOMAIN participants
       THEN Done(t, RetOf("404")) /\ UNCHANGED db
       ELSE /\ entries' = Restrict(entries,
                   {e \in DOMAIN entries : entries[e].participant_id # participant_id})
            /\ participants' = Restrict(participants,
                                        DOMAIN participants \ {participant_id})
            /\ winners' = SelectSeq(winners,
                                    LAMBDA w : w.participant_id # participant_id)
            /\ Done(t, RetOf("ok"))
            /\ UNCHANGED <<raffles, nextRid, nextPid, nextEid>>
    /\ UNCHANGED now

\* lines 693-707
RejectParticipant(t, participant_id) ==
    /\ pc[t] = "idle"
    /\ t \in Workers
    /\ IF participant_id \notin DOMAIN participants
       THEN Done(t, RetOf("404")) /\ UNCHANGED db
       ELSE /\ entries' = Restrict(entries,
                   {e \in DOMAIN entries : entries[e].participant_id # participant_id})
            /\ participants' = Restrict(participants,
                                        DOMAIN participants \ {participant_id})
            /\ Done(t, RetOf("ok"))
            /\ UNCHANGED <<raffles, winners, nextRid, nextPid, nextEid>>
    /\ UNCHANGED now

\* lines 727-736
ResetSystem(t) ==
    /\ pc[t] = "idle"
    /\ t \in Workers
    /\ winners' = <<>>
    /\ entries' = Restrict(entries, {})
    /\ raffles' = Restrict(raffles, {})
    /\ participants' = Restrict(participants, {})
    /\ Goto(t, "gcr1", [L0 EXCEPT !.op = "reset", !.cont = "reset"])
    /\ UNCHANGED <<nextRid, nextPid, nextEid, now>>

\* ------------------------------------------------------------------ clock
Advance ==
    /\ now + ClockStep <= MaxNow
    /\ now' = now + ClockStep
    /\ ret' = NoRet
    /\ UNCHANGED <<db, pc, loc>>

Step(t) ==
    \/ GcrRead(t)
    \/ GcrCreate(t)
    \/ GcrReadVerified(t)
    \/ GcrEnroll(t)
    \/ QueryCurrent(t)
    \/ TriggerDraw(t)
    \/ CheckAndExecuteDraw(t)
    \/ ExecuteRaffleDraw(t)
    \/ MarkDrawing(t)
    \/ ReadEntries(t)
    \/ PickWinner(t)
    \/ CompleteRaffle(t)
    \/ AddCheckExisting(t)
    \/ AddEntry(t)
    \/ \E name \in NameInputs, phone \in PhoneInputs, wager \in WagerInputs,
          pin \in PinInputs : Signup(t, name, phone, wager, pin)
    \/ SignupLookup(t)
    \/ SignupAddWager(t)
    \/ SignupFindEntry(t)
    \/ SignupAddEntries(t)
    \/ SignupCreate(t)
    \/ \E p \in 1 .. MaxPid : VerifyParticipant(t, p)
    \/ \E p \in 1 .. MaxPid : RejectParticipant(t, p)
    \/ ResetSystem(t)

Next == Advance \/ \E t \in Threads : Step(t)

Spec == Init /\ [][Next]_vars

\* the same handlers behind one serializing lock: a call runs to its end
\* before the next one starts
SerialNext ==
    \/ Advance
    \/ \E t \in Threads : (\A u \in Threads \ {t} : pc[u] = "idle") /\ Step(t)

SerialSpec == Init /\ [][SerialNext]_vars

\* ------------------------------------------------------------- scheduling
\* a thread that has begun a handler or the job runs on to its return
Running(t) == pc[t] # "idle" /\ Step(t)

\* the program with at most FairPids participants ever created
FairPids == 1

FairNext == Next /\ nextPid' <= FairPids + 1

\* lines 823-825: the interval trigger keeps starting the job, and the
\* threads of the server keep running; requests may or may not arrive
FairSpec ==
    /\ Init
    /\ [][FairNext]_vars
    /\ WF_vars(FairNext /\ Step("sched"))
    /\ \A t \in Workers : WF_vars(FairNext /\ Running(t))

\* the program started by init_db (lines 802-817) on an empty database at
\* any minute of an hour, observed minute by minute, with the scheduler job
\* as its only caller
MaxStart == 59
MaxMinute == 119

ClockInit ==
    /\ now \in 0 .. MaxStart
    /\ raffles = (1 :> [status |-> "pending", total_pot |-> 0,
                        draw_time |-> NextDrawTime(now)])
    /\ participants = [p \in {} |-> 0]
    /\ entries = [e \in {} |-> 0]
    /\ winners = <<>>
    /\ nextRid = 2 /\ nextPid = 1 /\ nextEid = 1
    /\ pc = [t \in Threads |-> "idle"]
    /\ loc = [t \in Threads |-> L0]
    /\ ret = NoRet

Minute ==
    /\ now < MaxMinute
    /\ now' = now + 1
    /\ ret' = NoRet
    /\ UNCHANGED <<db, pc, loc>>

\* the steps of the job while no request arrives and nobody has signed up
ClockNext ==
    \/ Minute
    \/ CheckAndExecuteDraw("sched")
    \/ ExecuteRaffleDraw("sched")
    \/ MarkDrawing("sched")
    \/ ReadEntries("sched")
    \/ CompleteRaffle("sched")
    \/ GcrRead("sched")
    \/ GcrCreate("sched")
    \/ GcrReadVerified("sched")

ClockSpec == ClockInit /\ [][ClockNext]_vars

\* ------------------------------------------------------------------ claims
Pending == {r \in DOMAIN raffles : raffles[r].status = "pending"}

WinnersOf(r) == SelectSeq(winners, LAMBDA w : w.raffle_id = r)

\* C1: in every reachable state at most one raffle has status 'pending'.
C1_AtMostOnePending == Cardinality(Pending) <= 1

\* C2: a raffle never has two Winner records for the same position.
C2_NoDoubleDraw ==
    \A i, j \in DOMAIN winners :
        (i # j /\ winners[i].raffle_id = winners[j].raffle_id)
            => winners[i].position # winners[j].position

\* C3: when execute_raffle_draw returns a result for raffle R, R is
\* 'completed', exactly one raffle is 'pending', and that raffle is not R.
C3_RolloverAfterDraw ==
    ret.kind = "result" =>
        /\ raffles[ret.raffle_id].status = "completed"
        /\ Cardinality(Pending) = 1
        /\ ret.raffle_id \notin Pending

Rank(status) == CASE status = "pending" -> 0
                  [] status = "drawing" -> 1
                  [] OTHER -> 2

\* C4: no step moves a raffle's status backwards along
\* pending -> drawing -> completed.
C4_StatusForward ==
    [][\A r \in DOMAIN raffles \cap DOMAIN raffles' :
          Rank(raffles[r].status) <= Rank(raffles'[r].status)]_vars

\* C5: no participant appears in two Winner records of one raffle.
C5_WinnersDistinct ==
    \A i, j \in DOMAIN winners :
        (i # j /\ winners[i].raffle_id = winners[j].raffle_id)
            => winners[i].participant_id # winners[j].participant_id

RECURSIVE SumAmounts(_)
SumAmounts(ws) == IF ws = <<>> THEN 0 ELSE Head(ws).amount_won + SumAmounts(Tail(ws))

\* C6: for a drawn raffle with k >= 1 winners the sum S of amount_won
\* satisfies prize_pool - k < S <= prize_pool, with
\* prize_pool = total_pot - floor(total_pot * 0.20).
C6_PayoutWithinPool ==
    \A r \in DOMAIN raffles :
        (raffles[r].status = "completed" /\ WinnersOf(r) # <<>>) =>
            LET prize_pool == raffles[r].total_pot - HouseCut(raffles[r].total_pot)
                S == SumAmounts(WinnersOf(r))
                k == Len(WinnersOf(r))
            IN  prize_pool - k < S /\ S <= prize_pool

RECURSIVE SumEntryCounts(_)
SumEntryCounts(es) ==
    IF es = <<>> THEN 0 ELSE entries[Head(es)].entry_count + SumEntryCounts(Tail(es))

Quiescent == \A t \in Threads : pc[t] = "idle"

\* C7: between calls, the pending raffle's total_pot is the sum of the
\* contributions of its Entry records, 10 x entry_count each.
C7_PotEqualsEntries ==
    Quiescent =>
        \A r \in Pending : raffles[r].total_pot = 10 * SumEntryCounts(EntriesOf(r))

\* C8: for every raffle and participant there is at most one Entry record.
C8_EntryUnique ==
    \A e, f \in DOMAIN entries :
        (entries[e].raffle_id = entries[f].raffle_id
         /\ entries[e].participant_id = entries[f].participant_id) => e = f

EntryRowsOf(tbl, r) == {<<e, tbl[e]>> : e \in {x \in DOMAIN tbl : tbl[x].raffle_id = r}}

NotPending(r) == r \notin DOMAIN raffles \/ raffles[r].status # "pending"

\* C10: execute_raffle_draw on a raffle that is missing, 'drawing' or
\* 'completed', or with no id when no raffle is pending, returns None and
\* changes no table.
C10_DrawOfNonPendingIsNoop ==
    [][\A t \in Threads :
          ((ExecuteRaffleDraw(t) /\ NotPending(loc[t].rid))
           \/ (TriggerDraw(t) /\ PendingFirst = 0))
              => (ret' = [RetOf("None") EXCEPT !.thread = t] /\ UNCHANGED db)]_vars

C10_Witness ==
    /\ ret.kind = "None"
    /\ ret.thread = "sched"
    /\ \E r \in DOMAIN raffles : raffles[r].status \in {"drawing", "completed"}

\* C11: a scheduler tick that runs while now < draw_time of the pending raffle
\* returns without changing any table and without starting a draw; the tick
\* hands a raffle to the draw only if it is the pending raffle and
\* now >= its draw_time, and the scheduler's draw marks a raffle 'drawing'
\* only when now >= that raffle's draw_time.
Due(r) == now >= raffles[r].draw_time

InvalidSignup(name, phone, wager, pin) ==
    \/ name = ""
    \/ phone = ""
    \/ wager < 10
    \/ wager % 10 # 0
    \/ pin # "1234"

C12_InvalidSignupRejected ==
    [][\A t \in Workers :
          \/ pc[t] # "idle"
          \/ pc'[t] = "idle" /\ ret'.thread # t
          \/ /\ UNCHANGED <<raffles, participants, entries, winners>>
             /\ pc'[t] = "idle"
             /\ ret'.thread = t
             /\ ret'.kind \in {"400", "403"}
          \/ ~ \E name \in NameInputs, phone \in PhoneInputs,
                   wager \in WagerInputs, pin \in PinInputs :
                     /\ InvalidSignup(name, phone, wager, pin)
                     /\ Signup(t, name, phone, wager, pin)]_vars

\* a signup was refused for its PIN while a participant with an entry exists
C12_Witness ==
    /\ ret.kind = "403"
    /\ ret.thread \in Workers
    /\ \E e \in DOMAIN entries : entries[e].participant_id \in DOMAIN participants
    /\ \E r \in DOMAIN raffles : raffles[r].total_pot > 0

\* C13: once a Winner record has been written, no later operation (further
\* draws, rollover, signup, reject_participant, reset_system) modifies or
\* deletes it: every step leaves the records of the winner table in place
\* and at most appends to them.
IsPrefix(s, u) == Len(s) <= Len(u) /\ SubSeq(u, 1, Len(s)) = s

C13_WinnersImmutable == [][IsPrefix(winners, winners')]_vars

\* C13 (amended): every step other than the first step of reset_system
\* leaves the written Winner records in place and at most appends to them;
\* reset_system deletes all of them.
C13_WinnersImmutableUntilReset ==
    [][\/ IsPrefix(winners, winners')
       \/ winners' = <<>> /\ \E t \in Workers : ResetSystem(t)]_vars

\* a Winner record outlived the rejection of its participant
C13_Witness ==
    \E i \in 1 .. Len(winners) : winners[i].participant_id \notin DOMAIN participants

\* C14: a draw of a pending raffle whose entries cover n distinct
\* participants plans min(2, n) winners when it reads the entries, and its
\* commit writes exactly min(2, n) Winner records whose positions are
\* exactly 1..min(2, n), each used once.
DistinctParticipants(r) ==
    {entries[e].participant_id : e \in {x \in DOMAIN entries : entries[x].raffle_id = r}}

MinOf2(n) == IF n < 2 THEN n ELSE 2

Written == SubSeq(winners', Len(winners) + 1, Len(winners'))

C14_WinnerCount ==
    [][\A t \in Threads :
          /\ (ReadEntries(t) /\ loc[t].rid \in DOMAIN raffles)
                => Len(loc'[t].dists)
                     = MinOf2(Cardinality(DistinctParticipants(loc[t].rid)))
          /\ (CompleteRaffle(t) /\ loc[t].rid \in DOMAIN raffles)
                => /\ Len(Written) = Len(loc[t].dists)
                   /\ \A i \in 1 .. Len(Written) :
                         Written[i].position = i /\ Written[i].raffle_id = loc[t].rid]_vars

\* C15: with house_cut = floor(total_pot * 0.20) and prize_pool = total_pot -
\* house_cut, every Winner record a draw is about to commit carries
\* floor(prize_pool * 0.625) at position 1 and floor(prize_pool * 0.375) at
\* position 2 when the draw planned two winners, and the whole prize_pool
\* when only one distinct participant was entered.
PrizePoolOf(total_pot) == total_pot - (total_pot \div 5)

Share(prize_pool, winner_count, position) ==
    IF winner_count = 1 THEN prize_pool
    ELSE IF position = 1 THEN (prize_pool * 5) \div 8
    ELSE (prize_pool * 3) \div 8

C15_Payout ==
    \A t \in Threads :
        pc[t] \in {"pick", "complete"} =>
            \A i \in 1 .. Len(loc[t].won) :
                loc[t].won[i].amount_won
                    = Share(PrizePoolOf(loc[t].rpot), Len(loc[t].dists),
                            loc[t].won[i].position)

\* a draw is about to commit two winners with different shares of the pool
C15_Witness ==
    \E t \in Threads :
        /\ pc[t] = "complete"
        /\ Len(loc[t].won) = 2
        /\ loc[t].won[1].amount_won > loc[t].won[2].amount_won
        /\ loc[t].won[2].amount_won > 0

\* C16: when a draw that found no Entry records of its raffle returns (empty
\* winners list, pot 0), no Winner record of that raffle exists, the raffle
\* is 'completed', and another raffle is pending.
C16_EmptyDraw ==
    (/\ ret.kind = "result"
     /\ ret.winners = <<>>
     /\ ret.pot = 0
     /\ EntriesOf(ret.raffle_id) = <<>>)
        => /\ ret.raffle_id \in DOMAIN raffles
           /\ raffles[ret.raffle_id].status = "completed"
           /\ WinnersOf(ret.raffle_id) = <<>>
           /\ Pending \ {ret.raffle_id} # {}

\* C17: under FairSpec, a pending raffle whose draw_time has been reached
\* (and whose draw still fits the bound on raffle ids) eventually has status
\* 'completed', and a raffle in status 'drawing' eventually has status
\* 'completed'.
DueRaffle(r) ==
    /\ r \in DOMAIN raffles
    /\ raffles[r].status = "pending"
    /\ Due(r)
    /\ nextRid < MaxRid

Drawing(r) == r \in DOMAIN raffles /\ raffles[r].status = "drawing"

Completed(r) == r \in DOMAIN raffles /\ raffles[r].status = "completed"

C18_EntryCountIsWager ==
    Quiescent =>
        \A e \in DOMAIN entries :
            (entries[e].raffle_id \in Pending
             /\ entries[e].participant_id \in DOMAIN participants)
                => entries[e].entry_count * 10
                     = participants[entries[e].participant_id].wager_amount

\* C19: the pool a draw builds from the entries it reads holds each
\* participant as many times as the entry_count of that participant's
\* entries in the drawn raffle; every selection that yields a Winner record
\* takes a participant of the current pool, removes all occurrences of that
\* participant and leaves the occurrences of the others; so the pool of a
\* running draw never holds a participant already selected.
Count(s, x) == Cardinality({i \in 1 .. Len(s) : s[i] = x})

RECURSIVE SumOfCounts(_)
SumOfCounts(S) ==
    IF S = {} THEN 0
    ELSE LET e == CHOOSE x \in S : TRUE
         IN  entries[e].entry_count + SumOfCounts(S \ {e})

EntryWeight(r, p) ==
    SumOfCounts({e \in DOMAIN entries : entries[e].raffle_id = r
                                        /\ entries[e].participant_id = p})

C19_PoolBuilt ==
    \A t \in Threads :
        (ReadEntries(t) /\ loc[t].rid \in DOMAIN raffles)
            => IF DistinctParticipants(loc[t].rid) = {}
               THEN pc'[t] = "complete" /\ loc'[t].won = <<>>
               ELSE /\ pc'[t] = "pick"
                    /\ \A p \in 1 .. MaxPid :
                          Count(loc'[t].pool, p) = EntryWeight(loc[t].rid, p)

C19_SelectionRemoves ==
    \A t \in Threads :
        PickWinner(t)
            => \/ loc'[t].won = loc[t].won
               \/ \E w \in Range(loc[t].pool) :
                     /\ Len(loc'[t].won) = Len(loc[t].won) + 1
                     /\ loc'[t].won[Len(loc'[t].won)].participant_id = w
                     /\ SubSeq(loc'[t].won, 1, Len(loc[t].won)) = loc[t].won
                     /\ Count(loc'[t].pool, w) = 0
                     /\ \A q \in 1 .. MaxPid :
                           q # w => Count(loc'[t].pool, q) = Count(loc[t].pool, q)

C19_WeightedPool ==
    /\ [][C19_PoolBuilt /\ C19_SelectionRemoves]_vars
    /\ [](\A t \in Threads :
             pc[t] = "pick" =>
                 \A i \in 1 .. Len(loc[t].won) :
                     Count(loc[t].pool, loc[t].won[i].participant_id) = 0)

\* the first winner is chosen and the pool still holds the two occurrences
\* of the other participant
C19_Witness ==
    \E t \in Threads :
        /\ pc[t] = "pick"
        /\ Len(loc[t].won) = 1
        /\ Len(loc[t].pool) = 2

\* C20: when get_current_raffle finds a pending raffle it changes no table
\* and creates nothing; when it has created a raffle, the step that ends the
\* enrolment leaves the new raffle with exactly one Entry for every verified
\* participant and no other Entry, each with entry_count = wager_amount
\* div 10, and with total_pot equal to the sum of those participants'
\* wager_amount.
RECURSIVE SumWagerAmounts(_, _)
SumWagerAmounts(tbl, S) ==
    IF S = {} THEN 0
    ELSE LET p == CHOOSE x \in S : TRUE
         IN  tbl[p].wager_amount + SumWagerAmounts(tbl, S \ {p})

Enrolled(rtbl, ptbl, etbl, r) ==
    LET verified == {p \in DOMAIN ptbl : ptbl[p].verified}
        rows == {e \in DOMAIN etbl : etbl[e].raffle_id = r}
    IN  /\ \A p \in verified :
              Cardinality({e \in rows : etbl[e].participant_id = p}) = 1
        /\ \A e \in rows :
              /\ etbl[e].participant_id \in verified
              /\ etbl[e].entry_count = ptbl[etbl[e].participant_id].wager_amount \div 10
        /\ rtbl[r].total_pot = SumWagerAmounts(ptbl, verified)

C20_RolloverEnrolsVerified ==
    [][\A t \in Threads :
          /\ (GcrRead(t) /\ PendingFirst # 0)
                => (UNCHANGED db /\ pc'[t] # "gcr2")
          /\ (GcrEnroll(t) /\ loc[t].raf \in DOMAIN raffles)
                => Enrolled(raffles', participants', entries', loc[t].raf)
          /\ (GcrReadVerified(t) /\ VerifiedParticipants = <<>>
              /\ loc[t].raf \in DOMAIN raffles)
                => Enrolled(raffles', participants', entries', loc[t].raf)]_vars

\* C21: when add_verified_participant_to_raffle looks for the Entry of its
\* raffle and participant and one exists, the call returns False at once:
\* it adds no Entry and leaves every entry_count and every total_pot as it
\* is, so every further call for that raffle and participant does the same.
C21_AddExistingIsNoop ==
    [][\A t \in Threads :
          (AddCheckExisting(t)
           /\ loc[t].raf \in DOMAIN raffles
           /\ EntryFirst(loc[t].raf, loc[t].pid) # 0)
              => /\ UNCHANGED db
                 /\ pc'[t] = "idle"
                 /\ ret' = [RetOf("False") EXCEPT !.thread = t]]_vars

\* a call has just returned False and the participant's Entry is in place
C21_Witness ==
    /\ ret.kind = "False"
    /\ \E e \in DOMAIN entries :
          /\ entries[e].raffle_id \in Pending
          /\ entries[e].participant_id \in DOMAIN participants

\* C22: a successful reject_participant(p) leaves no participant p and no
\* Entry that references p, rejecting an unknown id changes no table, and
\* no draw commits a Winner record for a participant that no longer exists
\* (that was rejected before the commit), also when the rejection falls
\* between the draw's reading of the entries and its commit.
C22_RejectedNeverWins ==
    [][/\ \A t \in Workers, p \in 1 .. MaxPid :
             RejectParticipant(t, p)
                => IF p \in DOMAIN participants
                   THEN /\ p \notin DOMAIN participants'
                        /\ \A e \in DOMAIN entries' : entries'[e].participant_id # p
                   ELSE UNCHANGED db
       /\ \A t \in Threads :
             (CompleteRaffle(t) /\ loc[t].rid \in DOMAIN raffles)
                => \A i \in 1 .. Len(Written) :
                      Written[i].participant_id \in DOMAIN participants]_vars

\* C23: in every state, a raffle that exists and has a Winner record has
\* status 'completed'.
C23_WinnersOnlyOfCompleted ==
    \A i \in 1 .. Len(winners) :
        winners[i].raffle_id \in DOMAIN raffles
            => raffles[winners[i].raffle_id].status = "completed"

\* C24: the draw_time get_current_raffle gives a raffle it creates is a
\* half-hour boundary with 0 < draw_time - now <= 30 (the earliest boundary
\* strictly after the creation time), every raffle's draw_time is a
\* half-hour boundary at most 30 minutes ahead, and the raffle a scheduler
\* tick hands to the draw has draw_time <= now, so a tick at the creation
\* instant never draws the raffle just created.
C24_NextBoundary ==
    /\ [][\A t \in Threads :
             /\ GcrCreate(t)
                   => /\ raffles'[nextRid].draw_time % 30 = 0
                      /\ raffles'[nextRid].draw_time - now \in 1 .. 30
             /\ (CheckAndExecuteDraw(t) /\ pc'[t] = "exec")
                   => raffles[loc'[t].rid].draw_time <= now]_vars
    /\ [](\A r \in DOMAIN raffles :
             raffles[r].draw_time % 30 = 0 /\ raffles[r].draw_time <= now + 30)

\* the rollover created raffle 2 on a half-hour boundary, and a tick in
\* that same minute has returned without drawing it
C24_Witness ==
    /\ 2 \in DOMAIN raffles
    /\ raffles[2].status = "pending"
    /\ raffles[2].draw_time = now + 30
    /\ ret.thread = "sched"
    /\ ret.kind = "ok"

\* C25: no step of a draw, its rollover included, changes a participant or
\* an existing Entry, and when a draw has returned its result for raffle R
\* the pending raffle the rollover created has the total_pot of R.
DrawStep(t) ==
    \/ MarkDrawing(t)
    \/ ReadEntries(t)
    \/ PickWinner(t)
    \/ CompleteRaffle(t)
    \/ (loc[t].cont = "draw"
        /\ (GcrRead(t) \/ GcrCreate(t) \/ GcrReadVerified(t) \/ GcrEnroll(t)))

C25_CarriedOverPot ==
    /\ [][\A t \in Threads :
             DrawStep(t)
                => /\ participants' = participants
                   /\ \A e \in DOMAIN entries :
                         e \in DOMAIN entries' /\ entries'[e] = entries[e]]_vars
    /\ []((/\ ret.kind = "result"
           /\ ret.raffle_id \in DOMAIN raffles
           /\ PendingFirst # 0)
             => raffles[PendingFirst].total_pot = raffles[ret.raffle_id].total_pot)

\* C26: every participant record is verified (signup, the only creator,
\* stores verified = True), and so every call of verify_participant answers
\* "not found" or "already verified" and changes no table.
C26_VerifyIsNoop ==
    /\ [](\A p \in DOMAIN participants : participants[p].verified)
    /\ [][\A t \in Workers : \A p \in 1 .. MaxPid :
             VerifyParticipant(t, p)
                => /\ UNCHANGED db
                   /\ pc'[t] = "idle"
                   /\ ret'.kind = IF p \in DOMAIN participants
                                  THEN "already verified" ELSE "404"]_vars

C26_Witness ==
    /\ ret.kind = "already verified"
    /\ DOMAIN participants # {}

====
